---- MODULE Spec2Model ----
(***************************************************************************)
(* State-machine model of the Discord bot in src/: the social-credit cog   *)
(* (src/cogs/social_credit.py: proposals, votes, expiry, cooldown, score   *)
(* ledger) and the AFK mover cog (src/cogs/afk_mover.py: cancellable       *)
(* per-member deafen timers).                                              *)
(*                                                                         *)
(* Both cogs run on one asyncio event loop.  A coroutine runs without      *)
(* interruption from one suspension point (an await that really waits: an  *)
(* HTTP call, a sleep, an await of an unfinished task) to the next, so     *)
(* every action below is one such run-to-suspension segment of a handler.  *)
(***************************************************************************)
EXTENDS Integers, Sequences, FiniteSets, Bags, TLC

(***************************************************************************)
(* Configuration of the social-credit cog (defaults of the os.getenv       *)
(* calls in SocialCreditCog.__init__).                                     *)
(***************************************************************************)
MIN_SCORE == -100
MAX_SCORE == 100
MAX_AMOUNT_PER_ACTION == 10
REQUIRED_APPROVALS == 2

(***************************************************************************)
(* Bounds of the social-credit model.                                      *)
(***************************************************************************)
\* number of events delivered to the cog: !credit commands and reactions
MaxEvents == 5
\* number of proposal messages
MaxProposals == 2

\* the bot's own account (it adds the two reactions to every proposal)
BotUser == 0
\* guild members: 1 issues commands, 2 is a target, 3 and 4 only vote
Users == {1, 2, 3, 4}
Authors == {1}
Targets == {1, 2}
\* amounts typed in a command: zero, within the cap, beyond the cap
Amounts == {0, 5, -25}
Emojis == {"yes", "no", "other"}
MsgIds == 1..MaxProposals
\* contents of the scores table when the cog is loaded
InitialScores == {<<>>, (2 :> 97), (2 :> -95)}

VARIABLES
    scores,             \* table scores: user_id -> score (absent: no row)
    actions,            \* table actions: bag of rows <<user_id, target_id>>
    pending_approvals,  \* keys of self.pending_approvals
    details,            \* message id -> the proposal's dict (survives the pop)
    commands,           \* credit handlers in flight: bag of records
    reactions,          \* on_reaction_add handlers in flight: bag of records
    cleanups,           \* schedule_cleanup tasks: message id -> position
    nEvents,            \* commands and reactions delivered so far
    outcome,            \* history: message id -> what was produced for it
    sinceReset,         \* history: pairs with a score mutation since the last reset
    selfVotes           \* history: proposals their author or target voted on

creditVars == <<scores, actions, pending_approvals, details, commands, reactions,
                cleanups, nEvents, outcome, sinceReset, selfVotes>>

VARIABLES
    voice,              \* member id -> the cached voice state (member.voice)
    pending_tasks,      \* self.pending_tasks: member id -> task
    tasks,              \* deafen_timer tasks not yet finished: task id -> record
    handlers,           \* on_voice_state_update handlers in flight: id -> record
    ready,              \* the event loop's queue of runnable handlers and tasks
    moveReq,            \* tasks whose move_to request is on its way to Discord
    nTasks,             \* tasks created so far (the last task id)
    nHandlers,          \* handlers created so far (the last handler id)
    nVoice,             \* voice changes made by members so far
    issued,             \* history: <<member, task>> that called member.move_to
    skipped,            \* history: <<member, task>> that fired and did not move
    moved,              \* history: <<member, task>> whose move Discord performed
    cleared,            \* history: timers pending when their member undeafened or left
    failed              \* history: <<task, nHandlers>> when move_to raised into the task

afkVars == <<voice, pending_tasks, tasks, handlers, ready, moveReq, nTasks,
             nHandlers, nVoice, issued, skipped, moved, cleared, failed>>

VARIABLES
    base_timer,         \* self.base_timer, set by __init__ from AFK_TIMER_SECONDS
    delays              \* history: member id -> the last result of calculate_timer

timerVars == <<base_timer, delays>>

vars == <<creditVars, afkVars, timerVars>>

(***************************************************************************)
(* Ledger: get_score, update_score, can_perform_action, record_action.     *)
(***************************************************************************)
get_score(user_id) ==
    IF user_id \in DOMAIN scores THEN scores[user_id] ELSE 0

UnclampedAbove(n) ==
    IF n < MIN_SCORE THEN MIN_SCORE ELSE n

clamp(n) ==
    IF n < MIN_SCORE THEN MIN_SCORE
    ELSE IF n > MAX_SCORE THEN MAX_SCORE
    ELSE n

\* the scores table after update_score(user_id, amount): INSERT OR REPLACE on
\* the primary key user_id
update_score(user_id, amount) ==
    LET new_score == clamp(get_score(user_id) + amount)
    IN  [u \in DOMAIN scores \cup {user_id} |->
            IF u = user_id THEN new_score ELSE scores[u]]

can_perform_action(user_id, target_id) ==
    CopiesIn(<<user_id, target_id>>, actions) = 0

\* the actions table after record_action: the table has no key, so INSERT OR
\* REPLACE adds a row
record_action(user_id, target_id) ==
    actions (+) SetToBag({<<user_id, target_id>>})

abs(n) == IF n < 0 THEN -n ELSE n

min(a, b) == IF a < b THEN a ELSE b

\* credit, lines 116-119: the amount capped to MAX_AMOUNT_PER_ACTION, sign kept
signed_amount(amount) ==
    min(abs(amount), MAX_AMOUNT_PER_ACTION) * (IF amount > 0 THEN 1 ELSE -1)

NoOutcome == [applied |-> 0, recorded |-> 0, denied |-> 0, expired |-> FALSE]

Without(f, k) == [x \in DOMAIN f \ {k} |-> f[x]]

Put(bag, r) == bag (+) SetToBag({r})

Take(bag, r) == bag (-) SetToBag({r})

(***************************************************************************)
(* credit command.                                                         *)
(***************************************************************************)
\* lines 110-129: the guards of the command, in the order of the code
Accepted(author, member, amount) ==
    /\ amount # 0
    /\ author # member
    /\ can_perform_action(author, member)

\* the command is processed up to its guards (lines 102-129); an accepted
\* command is left suspended in ctx.send / add_reaction (lines 137-145)
CreditCommand(author, member, amount) ==
    /\ nEvents < MaxEvents
    /\ nEvents' = nEvents + 1
    /\ IF Accepted(author, member, amount)
           THEN /\ Cardinality(DOMAIN details) + BagCardinality(commands) < MaxProposals
                /\ commands' = Put(commands,
                                   [author_id |-> author, target_id |-> member,
                                    signed_amount |-> signed_amount(amount)])
           ELSE UNCHANGED commands
    /\ UNCHANGED <<afkVars, timerVars, scores, actions, pending_approvals, details, reactions,
                   cleanups, outcome, sinceReset, selfVotes>>

\* lines 148-161: the proposal message exists, the entry is stored and the
\* expiry task is created
CreditRegister(cmd) ==
    /\ BagIn(cmd, commands)
    /\ LET id == Cardinality(DOMAIN details) + 1
       IN  /\ details' = details @@
                  (id :> [author_id |-> cmd.author_id,
                          target_id |-> cmd.target_id,
                          amount |-> abs(cmd.signed_amount),
                          is_add |-> cmd.signed_amount > 0,
                          approvers |-> {}])
           /\ pending_approvals' = pending_approvals \cup {id}
           /\ cleanups' = cleanups @@ (id :> "sleep")
           /\ outcome' = outcome @@ (id :> NoOutcome)
    /\ commands' = Take(commands, cmd)
    /\ UNCHANGED <<afkVars, timerVars, scores, actions, reactions, nEvents, sinceReset, selfVotes>>

\* ctx.send or add_reaction raises: the handler ends before line 148
CreditSendFails(cmd) ==
    /\ BagIn(cmd, commands)
    /\ commands' = Take(commands, cmd)
    /\ UNCHANGED <<afkVars, timerVars, scores, actions, pending_approvals, details, reactions,
                   cleanups, nEvents, outcome, sinceReset, selfVotes>>

(***************************************************************************)
(* on_reaction_add.                                                        *)
(***************************************************************************)
\* the guards without the test of line 176
EligibleAnyone(user, message_id, emoji) ==
    /\ user # BotUser
    /\ message_id \in pending_approvals
    /\ emoji \in {"yes", "no"}

\* lines 170-179: the reactions the handler acts on
Eligible(user, message_id, emoji) ==
    /\ user # BotUser
    /\ message_id \in pending_approvals
    /\ user # details[message_id].author_id
    /\ user # details[message_id].target_id
    /\ emoji \in {"yes", "no"}

\* lines 173-178: a vote on a pending proposal by its author or its target
SelfVote(user, message_id, emoji) ==
    /\ message_id \in pending_approvals
    /\ user \in {details[message_id].author_id, details[message_id].target_id}
    /\ emoji \in {"yes", "no"}

ReactIgnored(user, message_id, emoji) ==
    /\ nEvents < MaxEvents
    /\ ~Eligible(user, message_id, emoji)
    /\ nEvents' = nEvents + 1
    /\ selfVotes' = IF SelfVote(user, message_id, emoji)
                        THEN selfVotes \cup {message_id} ELSE selfVotes
    /\ UNCHANGED <<afkVars, timerVars, scores, actions, pending_approvals, details, commands,
                   reactions, cleanups, outcome, sinceReset>>

\* lines 193-199: the approver is added and the handler suspends in the loop
\* over the approvers (fetch_user); used is the size the set iterator saw
ReactApprove(user, message_id) ==
    /\ nEvents < MaxEvents
    /\ Eligible(user, message_id, "yes")
    /\ nEvents' = nEvents + 1
    /\ LET approvers == details[message_id].approvers \cup {user}
       IN  /\ details' = [details EXCEPT ![message_id].approvers = approvers]
           /\ reactions' = Put(reactions,
                               [msg |-> message_id, emoji |-> "yes", pc |-> "names",
                                used |-> Cardinality(approvers)])
    /\ UNCHANGED <<afkVars, timerVars, scores, actions, pending_approvals, commands, cleanups,
                   outcome, sinceReset, selfVotes>>

\* lines 197-204 and 223-240: back in the loop.  A set that changed size
\* under the iterator raises RuntimeError and ends the handler.  Otherwise
\* the threshold is tested on the set as it is now: reached, the handler
\* suspends fetching the target (line 204); not reached, it only edits the
\* proposal message.
NamesResume(h) ==
    /\ BagIn(h, reactions)
    /\ h.pc = "names"
    /\ LET approvers == details[h.msg].approvers
       IN  IF Cardinality(approvers) # h.used
               THEN reactions' = Take(reactions, h)
           ELSE IF Cardinality(approvers) >= REQUIRED_APPROVALS
               THEN reactions' = Put(Take(reactions, h), [h EXCEPT !.pc = "resolve"])
           ELSE reactions' = Take(reactions, h)
    /\ UNCHANGED <<afkVars, timerVars, scores, actions, pending_approvals, details, commands,
                   cleanups, nEvents, outcome, sinceReset, selfVotes>>

\* lines 205-211: the score is updated and the handler suspends in
\* channel.send
ResolveResume(h) ==
    /\ BagIn(h, reactions)
    /\ h.pc = "resolve"
    /\ LET d == details[h.msg]
           amount_sign == IF d.is_add THEN d.amount ELSE -d.amount
       IN  /\ scores' = update_score(d.target_id, amount_sign)
           /\ sinceReset' = sinceReset \cup {<<d.author_id, d.target_id>>}
    /\ outcome' = [outcome EXCEPT ![h.msg].applied = @ + 1]
    /\ reactions' = Put(Take(reactions, h), [h EXCEPT !.pc = "send"])
    /\ UNCHANGED <<afkVars, timerVars, actions, pending_approvals, details, commands, cleanups,
                   nEvents, selfVotes>>

\* cleanup_proposal, lines 87-88: nothing to do (and no suspension) when the
\* entry is gone, else the handler suspends in fetch_message / delete
EnterCleanup(h) ==
    IF h.msg \in pending_approvals
        THEN Put(Take(reactions, h), [h EXCEPT !.pc = "cleanup"])
        ELSE Take(reactions, h)

\* lines 220-222: the outcome message was sent
SendResume(h) ==
    /\ BagIn(h, reactions)
    /\ h.pc = "send"
    /\ LET d == details[h.msg]
       IN  actions' = record_action(d.author_id, d.target_id)
    /\ outcome' = [outcome EXCEPT ![h.msg].recorded = @ + 1]
    /\ reactions' = EnterCleanup(h)
    /\ UNCHANGED <<afkVars, timerVars, scores, pending_approvals, details, commands, cleanups,
                   nEvents, sinceReset, selfVotes>>

\* channel.send raises (Forbidden, HTTPException): nothing catches it and
\* the handler ends there
SendFails(h) ==
    /\ BagIn(h, reactions)
    /\ h.pc \in {"send", "send_d"}
    /\ reactions' = Take(reactions, h)
    /\ UNCHANGED <<afkVars, timerVars, scores, actions, pending_approvals, details, commands,
                   cleanups, nEvents, outcome, sinceReset, selfVotes>>

\* lines 241-249: the handler suspends fetching the target and sending the
\* denial
ReactDeny(user, message_id) ==
    /\ nEvents < MaxEvents
    /\ Eligible(user, message_id, "no")
    /\ nEvents' = nEvents + 1
    /\ reactions' = Put(reactions,
                        [msg |-> message_id, emoji |-> "no", pc |-> "send_d",
                         used |-> 0])
    /\ UNCHANGED <<afkVars, timerVars, scores, actions, pending_approvals, details, commands,
                   cleanups, outcome, sinceReset, selfVotes>>

\* lines 250-251: the denial was sent
DenySent(h) ==
    /\ BagIn(h, reactions)
    /\ h.pc = "send_d"
    /\ outcome' = [outcome EXCEPT ![h.msg].denied = @ + 1]
    /\ reactions' = EnterCleanup(h)
    /\ UNCHANGED <<afkVars, timerVars, scores, actions, pending_approvals, details, commands,
                   cleanups, nEvents, sinceReset, selfVotes>>

\* cleanup_proposal, lines 89-97: whatever fetch_message and delete did, the
\* finally clause pops the entry
CleanupDone(h) ==
    /\ BagIn(h, reactions)
    /\ h.pc = "cleanup"
    /\ pending_approvals' = pending_approvals \ {h.msg}
    /\ reactions' = Take(reactions, h)
    /\ UNCHANGED <<afkVars, timerVars, scores, actions, details, commands, cleanups, nEvents,
                   outcome, sinceReset, selfVotes>>

(***************************************************************************)
(* schedule_cleanup and reset_actions.                                     *)
(***************************************************************************)
\* lines 164-166: the sleep is over
ExpiryFires(message_id) ==
    /\ message_id \in DOMAIN cleanups
    /\ cleanups[message_id] = "sleep"
    /\ IF message_id \in pending_approvals
           THEN /\ cleanups' = [cleanups EXCEPT ![message_id] = "cleanup"]
                /\ outcome' = [outcome EXCEPT ![message_id].expired = TRUE]
           ELSE /\ cleanups' = [cleanups EXCEPT ![message_id] = "done"]
                /\ UNCHANGED outcome
    /\ UNCHANGED <<afkVars, timerVars, scores, actions, pending_approvals, details, commands,
                   reactions, nEvents, sinceReset, selfVotes>>

\* a cleanup_proposal that returns without its finally clause
ExpiryCleanupKeeps(message_id) ==
    /\ message_id \in DOMAIN cleanups
    /\ cleanups[message_id] = "cleanup"
    /\ cleanups' = [cleanups EXCEPT ![message_id] = "done"]
    /\ UNCHANGED <<afkVars, timerVars, scores, actions, pending_approvals, details,
                   commands, reactions, nEvents, outcome, sinceReset, selfVotes>>

\* cleanup_proposal called from schedule_cleanup (line 166)
ExpiryCleanupDone(message_id) ==
    /\ message_id \in DOMAIN cleanups
    /\ cleanups[message_id] = "cleanup"
    /\ pending_approvals' = pending_approvals \ {message_id}
    /\ cleanups' = [cleanups EXCEPT ![message_id] = "done"]
    /\ UNCHANGED <<afkVars, timerVars, scores, actions, details, commands, reactions, nEvents,
                   outcome, sinceReset, selfVotes>>

\* reset_actions, lines 36-40
ResetActions ==
    /\ actions' = EmptyBag
    /\ sinceReset' = {}
    /\ UNCHANGED <<afkVars, timerVars, scores, pending_approvals, details, commands, reactions,
                   cleanups, nEvents, outcome, selfVotes>>

\* the state once the cog is loaded: __init__ starts the reset_actions loop,
\* whose first iteration empties the actions table
InitCredit ==
    /\ scores \in InitialScores
    /\ actions = EmptyBag
    /\ pending_approvals = {}
    /\ details = <<>>
    /\ commands = EmptyBag
    /\ reactions = EmptyBag
    /\ cleanups = <<>>
    /\ nEvents = 0
    /\ outcome = <<>>
    /\ sinceReset = {}
    /\ selfVotes = {}

NextCredit ==
    \/ \E a \in Authors, t \in Targets, amt \in Amounts : CreditCommand(a, t, amt)
    \/ \E cmd \in BagToSet(commands) : CreditRegister(cmd)
    \/ \E cmd \in BagToSet(commands) : CreditSendFails(cmd)
    \/ \E u \in Users \cup {BotUser}, m \in MsgIds, e \in Emojis : ReactIgnored(u, m, e)
    \/ \E u \in Users, m \in MsgIds : ReactApprove(u, m)
    \/ \E u \in Users, m \in MsgIds : ReactDeny(u, m)
    \/ \E h \in BagToSet(reactions) : NamesResume(h)
    \/ \E h \in BagToSet(reactions) : ResolveResume(h)
    \/ \E h \in BagToSet(reactions) : SendResume(h)
    \/ \E h \in BagToSet(reactions) : SendFails(h)
    \/ \E h \in BagToSet(reactions) : DenySent(h)
    \/ \E h \in BagToSet(reactions) : CleanupDone(h)
    \/ \E m \in MsgIds : ExpiryFires(m)
    \/ \E m \in MsgIds : ExpiryCleanupDone(m)
    \/ ResetActions

(***************************************************************************)
(* AFK mover cog: configuration (AFKMoverCog.__init__) and bounds.         *)
(***************************************************************************)
\* the default of AFK_TIMER_SECONDS (line 15)
AFK_TIMER_SECONDS == 5
min_timer == 2
ENABLE_WHITELIST == TRUE
\* the ids listed in AFK_WHITELIST_USERS
AFK_WHITELIST_USERS == {3}
\* float('inf')
Inf == 1000000000

\* number of voice-state changes made by the members
MaxVoiceEvents == 4
\* number of on_voice_state_update handlers in flight when a member makes
\* a change
MaxInFlight == 1

\* members seen in voice: 2 is an ordinary member, 3 is on the whitelist
Members == {2, 3}
\* "none": not connected; "afk": the AFK channel get_afk_channel returns
Channels == {"none", "vc1", "vc2", "afk"}
\* the channels a member goes to: the whitelisted member only uses vc1
ChannelsOf(member) == IF member = 2 THEN Channels ELSE {"none", "vc1"}

NoWhitelist == {}

\* self.whitelist, lines 17-19
whitelist == IF ENABLE_WHITELIST THEN AFK_WHITELIST_USERS ELSE {}

\* calculate_timer, lines 38-55
calculate_timer(user_id) ==
    LET score == get_score(user_id)
    IN  IF user_id \in whitelist THEN Inf
        ELSE IF score < 0 THEN
            LET timer == base_timer - (abs(score) \div 10)
            IN  IF timer > min_timer THEN timer ELSE min_timer
        ELSE IF score > 0 THEN base_timer + (score \div 10) * 30
        ELSE base_timer

InQueue(q, x) == \E i \in 1..Len(q) : q[i] = x

Enqueue(q, x) == IF InQueue(q, x) THEN q ELSE Append(q, x)

(***************************************************************************)
(* on_voice_state_update.  A handler segment works on a context c:         *)
(* pt (pending_tasks), tk (tasks), rd (the ready queue), n (task ids       *)
(* used), and returns it with pc, the place where the handler suspended    *)
(* ("done": it returned), and wait, the task it awaits.                    *)
(***************************************************************************)
\* _cancel_pending, lines 83-90.  task.cancel() on an unfinished task marks
\* it and schedules its wake-up; await task suspends the handler until the
\* task has ended.  A finished task is awaited without suspension.
cancel_pending(c, uid) ==
    IF uid \notin DOMAIN c.pt THEN [c EXCEPT !.wait = 0]
    ELSE LET task == c.pt[uid]
         IN  IF task \notin DOMAIN c.tk
                 THEN [c EXCEPT !.pt = Without(c.pt, uid), !.wait = 0]
                 ELSE [c EXCEPT !.pt = Without(c.pt, uid),
                                !.tk[task].cancel = TRUE,
                                !.rd = Enqueue(c.rd, <<"t", task>>),
                                !.wait = task]

\* self.pending_tasks[member.id] = asyncio.create_task(self.deafen_timer(...))
create_task(c, uid, timer) ==
    [c EXCEPT !.n = c.n + 1,
              !.tk = c.tk @@ ((c.n + 1) :> [member |-> uid, st |-> "new",
                                            cancel |-> FALSE, timer |-> timer]),
              !.rd = Append(c.rd, <<"t", c.n + 1>>),
              !.pt = ((uid :> (c.n + 1)) @@ c.pt)]

Return(c) == [c EXCEPT !.pc = "done", !.wait = 0]

Suspend(c, pc) == [c EXCEPT !.pc = pc]

\* lines 125-128
Section4(c, ev) ==
    IF ev.after.channel = "none" /\ ev.member \in DOMAIN c.pt
        THEN LET c1 == cancel_pending(c, ev.member)
             IN  IF c1.wait # 0 THEN Suspend(c1, "w4") ELSE Return(c1)
        ELSE Return(c)

\* lines 120-123
Rearm3(c, ev) ==
    Section4(IF /\ ev.after.self_deaf
                /\ ev.after.channel # "none"
                /\ ev.after.channel # "afk"
                /\ calculate_timer(ev.member) # Inf
                 THEN create_task(c, ev.member, calculate_timer(ev.member))
                 ELSE c,
             ev)

\* lines 116-118
Section3(c, ev) ==
    IF ev.before.channel # ev.after.channel /\ ev.member \in DOMAIN c.pt
        THEN LET c1 == cancel_pending(c, ev.member)
             IN  IF c1.wait # 0 THEN Suspend(c1, "w3") ELSE Rearm3(c1, ev)
        ELSE Section4(c, ev)

\* lines 112-114
Arm2(c, ev) ==
    Section3(IF calculate_timer(ev.member) # Inf
                 THEN create_task(c, ev.member, calculate_timer(ev.member))
                 ELSE c,
             ev)

\* lines 108-111
Section2(c, ev) ==
    IF /\ ev.before.channel = "none"
       /\ ev.after.channel # "none"
       /\ ev.after.self_deaf
       /\ ev.after.channel # "afk"
        THEN LET c1 == cancel_pending(c, ev.member)
             IN  IF c1.wait # 0 THEN Suspend(c1, "w2") ELSE Arm2(c1, ev)
        ELSE Section3(c, ev)

\* lines 98-102
Arm1(c, ev) ==
    Section2(IF calculate_timer(ev.member) = Inf THEN c
             ELSE IF ev.after.channel # "none" /\ ev.after.channel # "afk"
                 THEN create_task(c, ev.member, calculate_timer(ev.member))
                 ELSE c,
             ev)

\* lines 92-106
Section1(c, ev) ==
    IF ev.before.self_deaf # ev.after.self_deaf
        THEN LET c1 == cancel_pending(c, ev.member)
             IN  IF ev.after.self_deaf
                     THEN IF c1.wait # 0 THEN Suspend(c1, "w1a") ELSE Arm1(c1, ev)
                     ELSE IF c1.wait # 0 THEN Suspend(c1, "w1b") ELSE Section2(c1, ev)
        ELSE Section2(c, ev)

\* lines 76-81 (the guild has an AFK channel)
HandlerStart(c, ev) ==
    IF ev.member \in whitelist THEN Return(c) ELSE Section1(c, ev)

\* the handler goes on after the await of the cancelled task
HandlerResume(c, ev, pc) ==
    CASE pc = "w1a" -> Arm1(c, ev)
      [] pc = "w1b" -> Section2(c, ev)
      [] pc = "w2" -> Arm2(c, ev)
      [] pc = "w3" -> Rearm3(c, ev)
      [] pc = "w4" -> Return(c)

\* the handler at the head of the ready queue runs to its next suspension
RunHandler ==
    /\ ready # <<>>
    /\ Head(ready)[1] = "h"
    /\ LET h == Head(ready)[2]
           ev == handlers[h]
           c == [pt |-> pending_tasks, tk |-> tasks, rd |-> Tail(ready),
                 n |-> nTasks, pc |-> ev.pc, wait |-> 0]
           r == IF ev.pc = "start" THEN HandlerStart(c, ev)
                ELSE HandlerResume(c, ev, ev.pc)
       IN  /\ pending_tasks' = r.pt
           /\ tasks' = r.tk
           /\ ready' = r.rd
           /\ nTasks' = r.n
           /\ handlers' = IF r.pc = "done" THEN Without(handlers, h)
                          ELSE [handlers EXCEPT ![h].pc = r.pc, ![h].wait = r.wait]
    /\ UNCHANGED <<creditVars, timerVars, failed,
                   voice, moveReq, nHandlers, nVoice, issued, skipped,
                   moved, cleared>>

(***************************************************************************)
(* deafen_timer.                                                           *)
(***************************************************************************)
\* the handlers awaiting task t are scheduled when t ends
Waiters(t) ==
    {h \in DOMAIN handlers : handlers[h].pc # "start" /\ handlers[h].wait = t}

RECURSIVE EnqueueAll(_, _)
EnqueueAll(q, hs) ==
    IF hs = {} THEN q
    ELSE LET h == CHOOSE x \in hs : \A y \in hs : x <= y
         IN  EnqueueAll(Append(q, <<"h", h>>), hs \ {h})

\* a task that ends without its finally clause
FinallyKeeps(member) == pending_tasks

\* lines 154-156: the finally clause
Finally(member) ==
    IF member \in DOMAIN pending_tasks
        THEN Without(pending_tasks, member)
        ELSE pending_tasks

\* a timer that moves the member whatever their state at the deadline
MovesAnyway(member) == TRUE

\* line 140: the member is still in voice and still self-deafened
StillDeafened(member) ==
    voice[member].channel # "none" /\ voice[member].self_deaf

TaskEnds(t) ==
    /\ tasks' = Without(tasks, t)
    /\ ready' = EnqueueAll(Tail(ready), Waiters(t))

\* a task cancelled before its first step never enters the coroutine: no
\* finally clause runs
TaskCancelledUnstarted ==
    /\ ready # <<>>
    /\ Head(ready)[1] = "t"
    /\ LET t == Head(ready)[2]
       IN  /\ tasks[t].st = "new"
           /\ tasks[t].cancel
           /\ TaskEnds(t)
    /\ UNCHANGED <<creditVars, timerVars, failed,
                   voice, pending_tasks, handlers, moveReq, nTasks, nHandlers,
                   nVoice, issued, skipped, moved, cleared>>

\* lines 131-134: the task starts and suspends in asyncio.sleep(timer)
TaskStarts ==
    /\ ready # <<>>
    /\ Head(ready)[1] = "t"
    /\ LET t == Head(ready)[2]
       IN  /\ tasks[t].st = "new"
           /\ ~tasks[t].cancel
           /\ tasks' = [tasks EXCEPT ![t].st = "sleep"]
           /\ ready' = Tail(ready)
    /\ UNCHANGED <<creditVars, timerVars, failed,
                   voice, pending_tasks, handlers, moveReq, nTasks, nHandlers,
                   nVoice, issued, skipped, moved, cleared>>

\* CancelledError is raised at the await the task is suspended in (the
\* sleep or move_to); no except clause catches it, the finally clause runs
TaskCancelled ==
    /\ ready # <<>>
    /\ Head(ready)[1] = "t"
    /\ LET t == Head(ready)[2]
       IN  /\ tasks[t].st \in {"sleep", "move"}
           /\ tasks[t].cancel
           /\ pending_tasks' = Finally(tasks[t].member)
           /\ TaskEnds(t)
    /\ UNCHANGED <<creditVars, timerVars, failed,
                   voice, handlers, moveReq, nTasks, nHandlers, nVoice, issued,
                   skipped, moved, cleared>>

\* lines 137-146: the sleep is over; the member is moved if still deafened
\* in voice (the task suspends in move_to), else the task ends
TaskFires ==
    /\ ready # <<>>
    /\ Head(ready)[1] = "t"
    /\ LET t == Head(ready)[2]
           member == tasks[t].member
       IN  /\ tasks[t].st = "sleep"
           /\ ~tasks[t].cancel
           /\ IF StillDeafened(member)
                  THEN /\ tasks' = [tasks EXCEPT ![t].st = "move"]
                       /\ ready' = Tail(ready)
                       /\ moveReq' = moveReq \cup {t}
                       /\ issued' = issued \cup {<<member, t>>}
                       /\ UNCHANGED <<pending_tasks, skipped>>
                  ELSE /\ pending_tasks' = Finally(member)
                       /\ TaskEnds(t)
                       /\ skipped' = skipped \cup {<<member, t>>}
                       /\ UNCHANGED <<moveReq, issued>>
    /\ UNCHANGED <<creditVars, timerVars, failed,
                   voice, handlers, nTasks, nHandlers, nVoice, moved,
                   cleared>>

\* lines 143-156: move_to returned or raised Forbidden / HTTPException
TaskMoveReturns ==
    /\ ready # <<>>
    /\ Head(ready)[1] = "t"
    /\ LET t == Head(ready)[2]
       IN  /\ tasks[t].st = "move"
           /\ ~tasks[t].cancel
           /\ pending_tasks' = Finally(tasks[t].member)
           /\ TaskEnds(t)
    /\ UNCHANGED <<creditVars, timerVars, failed,
                   voice, handlers, moveReq, nTasks, nHandlers, nVoice, issued,
                   skipped, moved, cleared>>

(***************************************************************************)
(* The environment: members, timers, Discord.                              *)
(***************************************************************************)
NotConnected == [channel |-> "none", self_deaf |-> FALSE]

\* the timers of a member that are armed and whose sleep is not over
Armed(member) ==
    {t \in DOMAIN tasks :
        /\ tasks[t].member = member
        /\ ~tasks[t].cancel
        /\ \/ tasks[t].st = "new"
           \/ tasks[t].st = "sleep" /\ ~InQueue(ready, <<"t", t>>)}

\* the event takes the member out of the state the timer is for
Clears(after) == ~after.self_deaf \/ after.channel = "none"

\* a gateway VOICE_STATE_UPDATE: the cache is updated and the handler is
\* scheduled with the states before and after; seen and old keep, for the
\* record, the timers armed for the member at that time and the one of them
\* that is recorded in pending_tasks
Dispatch(member, before, after) ==
    /\ voice' = [voice EXCEPT ![member] =
                     IF after.channel = "none" THEN NotConnected ELSE after]
    /\ nHandlers' = nHandlers + 1
    /\ LET seen == IF Clears(after) THEN Armed(member) ELSE {}
           old == IF /\ member \in DOMAIN pending_tasks
                     /\ pending_tasks[member] \in Armed(member)
                      THEN pending_tasks[member] ELSE 0
       IN  /\ handlers' = handlers @@
                  ((nHandlers + 1) :> [member |-> member, before |-> before,
                                       after |-> after, pc |-> "start", wait |-> 0,
                                       seen |-> seen, old |-> old])
           /\ cleared' = cleared \cup seen

\* a member joins, leaves, changes channel or toggles self-deafen.  For a
\* member who joins, discord.py builds before from the same payload with
\* channel None, so before.self_deaf = after.self_deaf.
VoiceChange(member, channel, self_deaf) ==
    /\ nVoice < MaxVoiceEvents
    /\ Cardinality(DOMAIN handlers) <= MaxInFlight
    /\ nVoice' = nVoice + 1
    /\ LET after == [channel |-> channel, self_deaf |-> self_deaf]
           before == IF voice[member].channel = "none"
                         THEN [channel |-> "none", self_deaf |-> self_deaf]
                         ELSE voice[member]
       IN  /\ before # after
           /\ Dispatch(member, before, after)
           /\ ready' = Append(ready, <<"h", nHandlers + 1>>)
    /\ UNCHANGED <<creditVars, timerVars, failed,
                   pending_tasks, tasks, moveReq, nTasks, issued, skipped,
                   moved>>

\* asyncio.sleep(timer) is over
TimerElapses(t) ==
    /\ t \in DOMAIN tasks
    /\ tasks[t].st = "sleep"
    /\ ~InQueue(ready, <<"t", t>>)
    /\ ready' = Append(ready, <<"t", t>>)
    /\ UNCHANGED <<creditVars, timerVars, failed,
                   voice, pending_tasks, tasks, handlers, moveReq, nTasks,
                   nHandlers, nVoice, issued, skipped, moved, cleared>>

Waiting(t) ==
    t \in DOMAIN tasks /\ tasks[t].st = "move" /\ ~InQueue(ready, <<"t", t>>)

\* Discord moves the member: the gateway event and the HTTP response arrive,
\* in either order
MovePerformed(t, eventFirst) ==
    /\ t \in moveReq
    /\ moveReq' = moveReq \ {t}
    /\ \E member \in Members :
          /\ <<member, t>> \in issued
          /\ voice[member].channel \notin {"none", "afk"}
          /\ moved' = moved \cup {<<member, t>>}
          /\ Dispatch(member, voice[member],
                      [voice[member] EXCEPT !.channel = "afk"])
    /\ LET h == <<"h", nHandlers + 1>>
       IN  ready' = IF ~Waiting(t) THEN Append(ready, h)
                    ELSE IF eventFirst THEN ready \o <<h, <<"t", t>>>>
                    ELSE ready \o <<<<"t", t>>, h>>
    /\ UNCHANGED <<creditVars, timerVars, failed,
                   pending_tasks, tasks, nTasks, nVoice, issued, skipped>>

\* the request is refused (Forbidden, HTTPException: the member has left
\* voice, ...) or, the task being cancelled, never sent
MoveFails(t) ==
    /\ t \in moveReq
    /\ moveReq' = moveReq \ {t}
    /\ ready' = IF Waiting(t) THEN Append(ready, <<"t", t>>) ELSE ready
    /\ failed' = IF Waiting(t) THEN failed \cup {<<t, nHandlers>>} ELSE failed
    /\ UNCHANGED <<creditVars, timerVars, voice, pending_tasks, tasks, handlers, nTasks, nHandlers,
                   nVoice, issued, skipped, moved, cleared>>

InitAfk ==
    /\ voice = [m \in Members |-> NotConnected]
    /\ pending_tasks = <<>>
    /\ tasks = <<>>
    /\ handlers = <<>>
    /\ ready = <<>>
    /\ moveReq = {}
    /\ nTasks = 0
    /\ nHandlers = 0
    /\ nVoice = 0
    /\ issued = {}
    /\ skipped = {}
    /\ moved = {}
    /\ cleared = {}
    /\ failed = {}

NextAfk ==
    \/ \E m \in Members, d \in BOOLEAN : \E ch \in ChannelsOf(m) : VoiceChange(m, ch, d)
    \/ RunHandler
    \/ TaskCancelledUnstarted
    \/ TaskStarts
    \/ TaskCancelled
    \/ TaskFires
    \/ TaskMoveReturns
    \/ \E t \in 1..nTasks : TimerElapses(t)
    \/ \E t \in 1..nTasks, b \in BOOLEAN : MovePerformed(t, b)
    \/ \E t \in 1..nTasks : MoveFails(t)

\* no call of calculate_timer has been recorded
NoDelays == <<>>

Init ==
    /\ InitCredit
    /\ InitAfk
    /\ base_timer = AFK_TIMER_SECONDS
    /\ delays = NoDelays

\* the AFK mover started with a score of -95 stored for member 2
InitAfkMover == Init /\ scores = (2 :> -95)

\* the credit cog with the AFK mover idle, and the AFK mover with the credit
\* cog idle
SpecCredit == Init /\ [][NextCredit]_vars

SpecAfk == InitAfkMover /\ [][NextAfk]_vars

\* the credit cog after author 1 typed a credit command of 5 against target 2
\* and its proposal was stored: the state CreditCommand(1, 2, 5) and
\* CreditRegister lead to from an empty scores table
InitOneOpen ==
    /\ scores = <<>>
    /\ actions = EmptyBag
    /\ pending_approvals = {1}
    /\ details = (1 :> [author_id |-> 1, target_id |-> 2,
                         amount |-> abs(signed_amount(5)),
                         is_add |-> signed_amount(5) > 0, approvers |-> {}])
    /\ commands = EmptyBag
    /\ reactions = EmptyBag
    /\ cleanups = (1 :> "sleep")
    /\ nEvents = 0
    /\ outcome = (1 :> NoOutcome)
    /\ sinceReset = {}
    /\ selfVotes = {}
    /\ InitAfk
    /\ base_timer = AFK_TIMER_SECONDS
    /\ delays = NoDelays

SpecCreditOpen == InitOneOpen /\ [][NextCredit]_vars

\* the credit cog on an event loop that runs: the sleep of schedule_cleanup
\* ends, and the fetch_message / delete calls of its cleanup_proposal return
\* or raise
SpecCreditFair ==
    /\ SpecCredit
    /\ \A m \in MsgIds : WF_vars(ExpiryFires(m)) /\ WF_vars(ExpiryCleanupDone(m))

(***************************************************************************)
(* calculate_timer on its own: the cog is constructed with some            *)
(* AFK_TIMER_SECONDS and some stored scores, and the delay of a member is  *)
(* computed.                                                               *)
(***************************************************************************)
\* the largest AFK_TIMER_SECONDS configured
MaxBaseTimer == 6
BaseTimers == 1..MaxBaseTimer
\* two members that are not on the whitelist
TimerMembers == {1, 2}
\* the scores table: every pair of stored scores, the lower one for member 1
StoredScores ==
    {(1 :> p[1]) @@ (2 :> p[2]) :
        p \in {q \in (MIN_SCORE..MAX_SCORE) \X (MIN_SCORE..MAX_SCORE) : q[1] <= q[2]}}

\* timer = self.calculate_timer(member.id)
CalculateTimer(user_id) ==
    /\ delays' = (user_id :> calculate_timer(user_id)) @@ delays
    /\ UNCHANGED <<creditVars, afkVars, base_timer>>

InitTimer ==
    /\ scores \in StoredScores
    /\ actions = EmptyBag
    /\ pending_approvals = {}
    /\ details = <<>>
    /\ commands = EmptyBag
    /\ reactions = EmptyBag
    /\ cleanups = <<>>
    /\ nEvents = 0
    /\ outcome = <<>>
    /\ sinceReset = {}
    /\ selfVotes = {}
    /\ InitAfk
    /\ base_timer \in BaseTimers
    /\ delays = NoDelays

NextTimer == \E u \in TimerMembers : CalculateTimer(u)

SpecTimer == InitTimer /\ [][NextTimer]_vars

(***************************************************************************)
(* Properties of the social-credit cog.                                    *)
(***************************************************************************)
Proposals == DOMAIN details

Pair(m) == <<details[m].author_id, details[m].target_id>>

\* C1: every stored score lies in [MIN_SCORE, MAX_SCORE], an absent record
\* counting as 0, whatever commands, votes, expiries and resets happened.
C1_ScoresInRange ==
    \A u \in Users : MIN_SCORE <= get_score(u) /\ get_score(u) <= MAX_SCORE

\* C1 witness: user 2 started at 97, a proposal of +5 was applied, and the
\* stored score is MAX_SCORE (102 clamped).
C1_ClampedAtMax ==
    /\ get_score(2) = MAX_SCORE
    /\ \E m \in Proposals : outcome[m].applied > 0 /\ details[m].is_add

\* C2: for every proposal update_score is applied at most once over its
\* whole life.
C2_AppliedAtMostOnce ==
    \A m \in Proposals : outcome[m].applied <= 1

\* C4: the first outcome produced for a proposal stays its only one: once
\* its score mutation has been applied no denial is rendered for it, and
\* once a denial has been rendered or the expiry has found it pending no
\* score mutation is applied for it.
C4_FirstOutcomeWins ==
    [][\A m \in Proposals :
           /\ outcome[m].applied > 0 => outcome'[m].denied = outcome[m].denied
           /\ (outcome[m].denied > 0 \/ outcome[m].expired) =>
                  outcome'[m].applied = outcome[m].applied]_vars

\* the deny handlers in flight for proposal m
DenyCount(m) ==
    CopiesIn([msg |-> m, emoji |-> "no", pc |-> "send_d", used |-> 0], reactions)
    + CopiesIn([msg |-> m, emoji |-> "no", pc |-> "cleanup", used |-> 0], reactions)

DenyHandlers ==
    {h \in BagToSet(reactions) : h.emoji = "no"}

\* C5: a deny vote by an eligible voter on a pending proposal always ends
\* with the denial rendered and the proposal out of pending_approvals (for
\* any number of approvers), and no step of its handler changes a score or
\* the cooldown table.
C5_DenyResolves ==
    [][/\ \A m \in Proposals :
             DenyCount(m)' < DenyCount(m) =>
                 /\ m \notin pending_approvals'
                 /\ outcome'[m].denied > 0
       /\ (\E h \in DenyHandlers : CopiesIn(h, reactions') # CopiesIn(h, reactions)) =>
             /\ scores' = scores
             /\ actions' = actions]_vars

\* C6: once a proposal has expired (schedule_cleanup found it pending) no
\* score mutation and no cooldown record is produced for it, and when it is
\* gone an identical command is accepted if the pair has no cooldown record.
C6_ExpiredLeavesLedger ==
    /\ [][\A m \in Proposals :
              outcome[m].expired =>
                  /\ outcome'[m].applied = outcome[m].applied
                  /\ outcome'[m].recorded = outcome[m].recorded]_vars
    /\ [](\A m \in Proposals :
              (/\ outcome[m].expired
               /\ m \notin pending_approvals
               /\ CopiesIn(Pair(m), actions) = 0) =>
                  Accepted(details[m].author_id, details[m].target_id,
                           IF details[m].is_add THEN details[m].amount
                           ELSE -details[m].amount))

\* C7: from the approval of a proposal by A against T (its score mutation)
\* until reset_actions runs, every credit command by A against T is
\* rejected; with the table just emptied by reset_actions a command with
\* A # T and a non-zero amount is accepted.
C7_CooldownAfterApproval ==
    \A a \in Authors, t \in Targets, amt \in Amounts :
        IF <<a, t>> \in sinceReset
            THEN ~Accepted(a, t, amt)
            ELSE (actions = EmptyBag /\ a # t /\ amt # 0) => Accepted(a, t, amt)

\* C11: the actions table holds at most one row for each (actor, target)
\* pair, whatever approvals and resets happened.
C11_OneRecordPerPair ==
    \A p \in BagToSet(actions) : CopiesIn(p, actions) <= 1

\* C12: a credit command creates a pending proposal if and only if its
\* amount is not zero, its author is not its target and can_perform_action
\* holds: a rejected command adds no entry, starts no expiry task and leaves
\* scores and cooldown records alone; the handler of an accepted command
\* ends with the entry stored and its expiry task started; every entry
\* stored has a non-zero amount and an author other than its target.
C12_ProposalIffGuards ==
    [][/\ \A a \in Authors, t \in Targets, amt \in Amounts :
             (CreditCommand(a, t, amt) /\ ~Accepted(a, t, amt)) =>
                 UNCHANGED <<pending_approvals, cleanups, commands, scores, actions>>
       /\ \A cmd \in BagToSet(commands) :
             CopiesIn(cmd, commands') < CopiesIn(cmd, commands) =>
                 /\ \E m \in pending_approvals' \ pending_approvals :
                        /\ m \in DOMAIN cleanups' \ DOMAIN cleanups
                        /\ details'[m].author_id = cmd.author_id
                        /\ details'[m].target_id = cmd.target_id
                 /\ UNCHANGED <<scores, actions>>
       /\ \A m \in pending_approvals' \ pending_approvals :
             /\ details'[m].amount # 0
             /\ details'[m].author_id # details'[m].target_id]_vars

\* C13: for every pending proposal neither its author nor its target is in
\* its approvers; a vote by the author or the target starts no handler and
\* changes neither the proposal, the scores nor the cooldown table.
C13_AuthorTargetNeverApprove ==
    /\ [](\A m \in pending_approvals :
              /\ details[m].author_id \notin details[m].approvers
              /\ details[m].target_id \notin details[m].approvers)
    /\ [][selfVotes' # selfVotes =>
              UNCHANGED <<details, pending_approvals, reactions, scores, actions>>]_vars

\* C13 witness: a pending proposal has an approver, and its author or its
\* target has voted on it.
C13_SelfVoteIgnored ==
    \E m \in pending_approvals \cap selfVotes : details[m].approvers # {}

\* C16: when the outcome message of a resolving vote is refused, the
\* handler still ends with the proposal out of pending_approvals and, for
\* an approval, with the score mutated once and the cooldown record of the
\* pair written.
C16_RefusedSendStillCompletes ==
    [][\A h \in BagToSet(reactions) :
           SendFails(h) =>
               /\ h.msg \notin pending_approvals'
               /\ h.emoji = "yes" =>
                      /\ outcome'[h.msg].applied = 1
                      /\ CopiesIn(Pair(h.msg), actions') > 0]_vars

\* C20: every proposal in pending_approvals is eventually removed from it;
\* once its schedule_cleanup has finished the proposal is not pending,
\* whatever fetching and deleting its message did; a schedule_cleanup whose
\* sleep ends on a proposal already removed changes nothing else.
C20_ProposalEventuallyRemoved ==
    /\ \A m \in MsgIds : (m \in pending_approvals) ~> (m \notin pending_approvals)
    /\ [](\A m \in DOMAIN cleanups :
              cleanups[m] = "done" => m \notin pending_approvals)
    /\ [][\A m \in DOMAIN cleanups :
              (cleanups[m] = "sleep" /\ cleanups'[m] = "done") =>
                  UNCHANGED <<pending_approvals, details, scores, actions, commands,
                              reactions, outcome>>]_vars

\* C20 witness: a proposal nobody voted on has expired and is gone, and the
\* schedule_cleanup of another proposal has found it already resolved.
C20_ExpiredAndLateCleanup ==
    /\ \E m \in Proposals :
          /\ outcome[m].expired
          /\ details[m].approvers = {}
          /\ outcome[m].denied = 0
          /\ cleanups[m] = "done"
          /\ m \notin pending_approvals
    /\ \E m \in Proposals : ~outcome[m].expired /\ cleanups[m] = "done"

\* C21: between two runs of reset_actions at most one approved mutation is
\* applied for a pair (actor, target), each proposal's mutation counted
\* once: the score mutation of a proposal not yet applied is applied only if
\* no mutation was applied for its pair since the last reset.
C21_OneMutationPerPair ==
    [][\A m \in Proposals :
           (outcome[m].applied = 0 /\ outcome'[m].applied > 0) =>
               Pair(m) \notin sinceReset]_vars

(***************************************************************************)
(* Properties of the AFK mover cog.                                        *)
(***************************************************************************)
\* C14: for a member who is not on the whitelist, whatever score is stored
\* and whatever base delay is configured, calculate_timer returns a finite
\* delay that is not below the configured minimum delay.
C14_DelayWithinBounds ==
    \A u \in DOMAIN delays :
        u \notin whitelist => min_timer <= delays[u] /\ delays[u] < Inf

\* C15: for two members who are not on the whitelist, the one with the
\* lower (or equal) stored score never gets the longer delay, whatever base
\* delay is configured.
C15_DelayMonotonic ==
    \A u1 \in DOMAIN delays, u2 \in DOMAIN delays :
        (u1 \notin whitelist /\ u2 \notin whitelist /\ get_score(u1) <= get_score(u2))
            => delays[u1] <= delays[u2]

\* C3: every deafen_timer task that is neither finished nor cancelled is
\* the task recorded in pending_tasks for its member, so a member never has
\* two of them.
C3_OneLiveTimer ==
    \A t \in DOMAIN tasks :
        ~tasks[t].cancel =>
            /\ tasks[t].member \in DOMAIN pending_tasks
            /\ pending_tasks[tasks[t].member] = t

\* C8: when the handler of an event by which a member stops self-deafening
\* or leaves voice has returned, every timer of the member that was pending
\* at the event is finished or cancelled, and no such timer ever calls
\* move_to afterwards.
C8_ClearedTimerNeverMoves ==
    [][/\ \A h \in DOMAIN handlers \ DOMAIN handlers' :
             \A t \in handlers[h].seen :
                 t \in DOMAIN tasks' => tasks'[t].cancel
       /\ \A p \in issued' \ issued : p[2] \notin cleared]_vars

\* C9: a timer that elapses calls move_to only if, at that moment, the
\* member is connected to voice and self-deafened.
C9_MoveOnlyIfStillDeafened ==
    [][\A p \in issued' \ issued :
           voice[p[1]].channel # "none" /\ voice[p[1]].self_deaf]_vars

\* C9 witness: one timer has elapsed and moved its member, another has
\* elapsed and left the member alone.
C9_BothBranchesTaken ==
    issued # {} /\ skipped # {}

\* C10: a member on the whitelist never has a timer task and is never moved
\* by the bot.
C10_WhitelistedNeverTimed ==
    \A m \in AFK_WHITELIST_USERS :
        /\ m \notin DOMAIN pending_tasks
        /\ \A t \in DOMAIN tasks : tasks[t].member # m
        /\ \A p \in issued \cup moved : p[1] # m

\* C10 witness: a whitelisted member sits self-deafened in a voice channel
\* and every handler has returned.
C10_WhitelistedDeafened ==
    /\ \E m \in AFK_WHITELIST_USERS :
          voice[m].channel = "vc1" /\ voice[m].self_deaf
    /\ handlers = <<>>

\* C17: once deafen_timer is awaiting member.move_to, a cancellation by a
\* later voice-state event has no effect on the move: the task is not ended
\* by the cancellation, and the request is performed by Discord or its
\* failure is delivered to the task that awaits it.
C17_InFlightMoveCompletes ==
    [][/\ \A t \in DOMAIN tasks \ DOMAIN tasks' :
             tasks[t].st = "move" => ~tasks[t].cancel
       /\ \A t \in moveReq \ moveReq' :
             (\E m \in Members : <<m, t>> \in moved') \/ Waiting(t)]_vars

\* C18: when a timer task that fired ends (the move was skipped, was
\* performed or failed), the member has no entry in pending_tasks, the task
\* makes no further move_to call and creates no task, and every handler in
\* flight stays in flight and stays scheduled.
C18_FiredTimerCleansUp ==
    [][\A t \in DOMAIN tasks \ DOMAIN tasks' :
           (tasks[t].st \in {"sleep", "move"} /\ ~tasks[t].cancel) =>
               /\ tasks[t].member \notin DOMAIN pending_tasks'
               /\ t \notin moveReq'
               /\ issued' = issued
               /\ nTasks' = nTasks
               /\ handlers' = handlers
               /\ \A h \in DOMAIN handlers :
                      InQueue(ready, <<"h", h>>) => InQueue(ready', <<"h", h>>)]_vars

\* C18 witness: a move_to call failed, its task has ended, and an event
\* dispatched after the failure has been handled with a new timer armed.
C18_EventHandledAfterFailure ==
    \E p \in failed :
        /\ p[1] \notin DOMAIN tasks
        /\ nHandlers > p[2]
        /\ handlers = <<>>
        /\ \E m \in DOMAIN pending_tasks : pending_tasks[m] > p[1]

\* the timers of a member that are neither finished nor cancelled
LiveTimers(tk, member) ==
    {t \in DOMAIN tk : tk[t].member = member /\ ~tk[t].cancel}

\* the cached voice state an event leaves
Cached(after) == IF after.channel = "none" THEN NotConnected ELSE after

\* C19: when the handler of a channel change by a member who had a pending
\* timer returns, no other handler of the member being in flight and the
\* member being in the state the event left, that timer is finished or
\* cancelled; if the member is still self-deafened and the new channel is a
\* voice channel other than the AFK channel, exactly one timer of the
\* member is live, it is a new one, it is the one recorded in pending_tasks
\* and its delay is calculate_timer of the member's score; if the new
\* channel is the AFK channel or none, the member has no live timer and no
\* entry.
C19_ChannelChangeRearms ==
    [][\A h \in DOMAIN handlers \ DOMAIN handlers' :
           LET ev == handlers[h]
               m == ev.member
           IN  (/\ ev.before.channel # ev.after.channel
                /\ ev.old # 0
                /\ voice'[m] = Cached(ev.after)
                /\ \A h2 \in DOMAIN handlers' : handlers'[h2].member # m) =>
                   /\ ev.old \in DOMAIN tasks' => tasks'[ev.old].cancel
                   /\ IF ev.after.self_deaf /\ ev.after.channel \notin {"none", "afk"}
                          THEN /\ m \in DOMAIN pending_tasks'
                               /\ LiveTimers(tasks', m) = {pending_tasks'[m]}
                               /\ tasks'[pending_tasks'[m]].timer = calculate_timer(m)
                               /\ pending_tasks'[m] > ev.old
                          ELSE /\ LiveTimers(tasks', m) = {}
                               /\ m \notin DOMAIN pending_tasks']_vars

\* C22: when the handler of an event of a member who is not on the
\* whitelist returns, no other handler of the member being in flight and
\* the member being in the state the event left, a member left
\* self-deafened in a voice channel other than the AFK channel has a timer
\* recorded in pending_tasks that is neither finished nor cancelled; so has
\* a member who came from the AFK channel self-deafened with no timer.
C22_DeafenedMemberHasTimer ==
    [][\A h \in DOMAIN handlers \ DOMAIN handlers' :
           LET ev == handlers[h]
               m == ev.member
           IN  (/\ m \notin whitelist
                /\ ev.after.self_deaf
                /\ ev.after.channel \notin {"none", "afk"}
                /\ voice'[m] = Cached(ev.after)
                /\ \A h2 \in DOMAIN handlers' : handlers'[h2].member # m) =>
                   /\ m \in DOMAIN pending_tasks'
                   /\ pending_tasks'[m] \in LiveTimers(tasks', m)]_vars

====
